---- MODULE Spec2Model ----
(***************************************************************************)
(* Model of spark_stream.py: a Spark Structured Streaming job that reads   *)
(* JSON user records from the Kafka topic users_created, parses them with  *)
(* from_json against a 12-field schema and inserts every row of every      *)
(* micro-batch into the Cassandra table spark_streams.created_users.       *)
(*                                                                         *)
(* Text is modelled as a sequence of one-character strings.  A nullable    *)
(* value is <<>> (None / null) or <<s>> (the text s).                      *)
(***************************************************************************)
EXTENDS Integers, Sequences, FiniteSets, TLC

\* ------------------------------------------------------------------ bounds

\* Number of messages in the topic when the job starts.
MaxMsgs == 3

\* Largest number of rows direct callers hand to insert_data.
MaxRows == 2

\* ------------------------------------------------------------ nullable text

NULL == <<>>

Some(s) == <<s>>

\* Python truthiness of a str-or-None value: None and "" are falsy.
Truthy(v) == v # NULL /\ Len(v[1]) > 0

\* ----------------------------------------------------------------- uuid.UUID

HexDigits ==
  <<"0", "1", "2", "3", "4", "5", "6", "7", "8", "9", "a", "b", "c", "d", "e", "f">>

UpperHexDigits ==
  <<"0", "1", "2", "3", "4", "5", "6", "7", "8", "9", "A", "B", "C", "D", "E", "F">>

\* Length of the hexadecimal form uuid.UUID requires.
UuidHexLen == 32

\* Value of one character in base 16, -1 when it is no hexadecimal digit.
HexVal(c) ==
  IF \E d \in 1..16 : HexDigits[d] = c
    THEN (CHOOSE d \in 1..16 : HexDigits[d] = c) - 1
    ELSE IF \E d \in 1..16 : UpperHexDigits[d] = c
      THEN (CHOOSE d \in 1..16 : UpperHexDigits[d] = c) - 1
      ELSE -1

StartsWith(s, pat) ==
  /\ Len(s) >= Len(pat)
  /\ SubSeq(s, 1, Len(pat)) = pat

RECURSIVE Remove(_, _)
\* str.replace(pat, ''): every occurrence of pat, left to right, removed.
Remove(s, pat) ==
  IF s = <<>> THEN <<>>
  ELSE IF StartsWith(s, pat) THEN Remove(SubSeq(s, Len(pat) + 1, Len(s)), pat)
  ELSE <<Head(s)>> \o Remove(Tail(s), pat)

RECURSIVE LStrip(_, _)
LStrip(s, chars) ==
  IF s # <<>> /\ Head(s) \in chars THEN LStrip(Tail(s), chars) ELSE s

RECURSIVE RStrip(_, _)
RStrip(s, chars) ==
  IF s # <<>> /\ s[Len(s)] \in chars THEN RStrip(SubSeq(s, 1, Len(s) - 1), chars) ELSE s

\* str.strip(chars)
Strip(s, chars) == RStrip(LStrip(s, chars), chars)

\* The string uuid.UUID reduces its argument to before it reads the digits:
\* hex.replace('urn:', '').replace('uuid:', '').strip('{}').replace('-', '').
\* The digits are then read by int(hex, 16); the id texts of the inputs hold
\* no blank, sign, underscore or 0x prefix, which int would also accept.
UuidHex(s) ==
  Remove(Strip(Remove(Remove(s, <<"u", "r", "n", ":">>), <<"u", "u", "i", "d", ":">>),
               {"{", "}"}),
         <<"-">>)

\* uuid.UUID(s) raises ValueError unless 32 hexadecimal digits remain.
UuidOk(s) ==
  LET hex == UuidHex(s) IN
    /\ Len(hex) = UuidHexLen
    /\ \A k \in 1..UuidHexLen : HexVal(hex[k]) >= 0

\* The 128-bit value of uuid.UUID(s), as its 32 base-16 digits.
UuidValue(s) == LET hex == UuidHex(s) IN [k \in 1..UuidHexLen |-> HexVal(hex[k])]

\* ------------------------------------------------------------------ schema

\* create_selection_df_from_kafka: the 12 StructFields, in order.
Schema ==
  <<"id", "first_name", "last_name", "gender", "address", "post_code",
    "email", "username", "dob", "registered_date", "phone", "picture">>

Fields == {Schema[k] : k \in 1..Len(Schema)}

\* create_table / the INSERT statement: the column list, in order.
Columns ==
  <<"id", "first_name", "last_name", "gender", "address", "post_code",
    "email", "username", "dob", "registered_date", "phone", "picture">>

\* ------------------------------------------------------------- input values

HexA ==
  <<"0", "1", "2", "3", "4", "5", "6", "7", "8", "9", "a", "b", "c", "d", "e", "f",
    "0", "1", "2", "3", "4", "5", "6", "7", "8", "9", "a", "b", "c", "d", "e", "f">>

HexB ==
  <<"f", "e", "d", "c", "b", "a", "9", "8", "7", "6", "5", "4", "3", "2", "1", "0",
    "f", "e", "d", "c", "b", "a", "9", "8", "7", "6", "5", "4", "3", "2", "1", "0">>

\* The 8-4-4-4-12 text form of 32 digits.
Canonical(h) ==
  SubSeq(h, 1, 8) \o <<"-">> \o SubSeq(h, 9, 12) \o <<"-">> \o SubSeq(h, 13, 16)
    \o <<"-">> \o SubSeq(h, 17, 20) \o <<"-">> \o SubSeq(h, 21, 32)

Upper(s) == [k \in 1..Len(s) |-> IF HexVal(s[k]) >= 0 THEN UpperHexDigits[HexVal(s[k]) + 1] ELSE s[k]]

IdA == Canonical(HexA)

\* The same UUID as IdA, written in capitals.
IdAUpper == Upper(IdA)

IdB == Canonical(HexB)

\* The same UUID as IdB, in URN form.
IdBUrn == <<"u", "r", "n", ":", "u", "u", "i", "d", ":">> \o IdB

IdEmpty == <<>>

IdNotUuid == <<"n", "o", "t", "-", "a", "-", "u", "u", "i", "d">>

\* Of the right length, with one character that is no hexadecimal digit.
IdBadDigit == Canonical([HexA EXCEPT ![1] = "g"])

\* Every id text of the inputs.
IdTexts == {IdA, IdAUpper, IdB, IdBUrn, IdEmpty, IdNotUuid, IdBadDigit}

\* uuid.UUID(s) for every id text of the inputs, worked out once: the value
\* as <<value>>, or <<>> where uuid.UUID raises ValueError.
Uuid == [s \in IdTexts |-> IF UuidOk(s) THEN <<UuidValue(s)>> ELSE <<>>]

\* One character naming the field, so that no two fields hold the same text.
FieldCode(f) ==
  CASE f = "id" -> "i" [] f = "first_name" -> "f" [] f = "last_name" -> "l"
    [] f = "gender" -> "g" [] f = "address" -> "a" [] f = "post_code" -> "z"
    [] f = "email" -> "e" [] f = "username" -> "u" [] f = "dob" -> "d"
    [] f = "registered_date" -> "r" [] f = "phone" -> "p" [] f = "picture" -> "c"

\* A JSON object / dict with every field in keys: the id given, the other
\* fields a text that names the field and the tag.
Obj(keys, id, tag) ==
  [f \in keys |-> IF f = "id" THEN id ELSE Some(<<FieldCode(f), tag>>)]

\* ------------------------------------------------------------ Kafka messages

\* A message value: malformed JSON, or a JSON object.
Malformed == [json |-> FALSE, obj |-> <<>>]

Object(o) == [json |-> TRUE, obj |-> o]

MsgA1 == Object(Obj(Fields, Some(IdA), "1"))

MsgA2 == Object(Obj(Fields, Some(IdAUpper), "2"))

MsgB == Object(Obj(Fields \ {"picture"}, Some(IdB), "1"))

MsgEmptyId == Object(Obj(Fields, Some(IdEmpty), "1"))

MsgNotUuid == Object(Obj(Fields, Some(IdNotUuid), "1"))

MsgNoId == Object(Obj(Fields \ {"id"}, NULL, "1"))

Payloads == {MsgA1, MsgA2, MsgB, MsgEmptyId, MsgNotUuid, MsgNoId, Malformed}

\* from_json(col("value"), schema) followed by select("data.*"): one row per
\* message, with every schema field; a field the object lacks, and every
\* field of a value that is not JSON, is null.  No row is filtered out.
ParseRow(msg) ==
  [f \in Fields |-> IF msg.json /\ f \in DOMAIN msg.obj THEN msg.obj[f] ELSE NULL]

\* The rows Spark hands to foreachBatch for the messages ms.
ParseBatch(ms) == [k \in 1..Len(ms) |-> ParseRow(ms[k])]

\* ------------------------------------------------------- rows given directly

\* A dict without the key "id".
RowAbsentId == Obj(Fields \ {"id"}, NULL, "1")

RowBadDigit == Obj(Fields, Some(IdBadDigit), "1")

RowBUrn == Obj(Fields, Some(IdBUrn), "2")

\* The rows a direct caller of insert_data passes (row.asDict() of each).
DirectRows ==
  {ParseRow(MsgA1), ParseRow(MsgA2), RowBUrn, ParseRow(MsgEmptyId), ParseRow(Malformed),
   RowAbsentId, ParseRow(MsgNotUuid), RowBadDigit}

SeqsUpTo(S, n) == UNION {[1..k -> S] : k \in 0..n}

\* Rows of spark_streams.created_users written by anyone before the call.
StoredRow(id, tag) ==
  [c \in Fields |-> IF c = "id" THEN Uuid[id][1] ELSE Some(<<FieldCode(c), tag>>)]

InitialStores == SUBSET {StoredRow(IdA, "0"), StoredRow(IdB, "0")}

\* Number of times a direct caller delivers the same batch.
MaxCalls == 2

\* --------------------------------------------------------------------- state

VARIABLES
  pc,          \* where __main__ stands; "direct" when insert_data is called directly
  spark_conn,  \* "unset", "none" (None) or "ok"
  spark_df,    \* "unset", "none" (None) or "ok"
  session,     \* "unset", "none" (None) or "ok"
  ddl,         \* the DDL statements executed: "keyspace", "table"
  log,         \* the records the logging module has emitted, in order
  exc,         \* the exception that ended __main__, "none" when there is none
  bus,         \* the messages of topic users_created, in offset order
  cursor,      \* number of messages of the topic the query has advanced past
  batchStart,  \* cursor value the current micro-batch was read at
  batch,       \* df_batch.collect(): the rows of the current micro-batch
  calls,       \* number of insert_data calls begun
  call,        \* "idle", "running", "returned" or "raised": the current insert_data call
  raised,      \* the ValueError insert_data raised, "none" when there is none
  i,           \* position in batch of the row the for loop is at
  store,       \* the rows of spark_streams.created_users
  attempts,    \* every session.execute of the INSERT so far, in order
  snapshot     \* the table as it was when the batch was delivered again

vars ==
  <<pc, spark_conn, spark_df, session, ddl, log, exc, bus, cursor, batchStart,
    batch, calls, call, raised, i, store, attempts, snapshot>>

setupVars == <<spark_conn, spark_df, session, ddl>>

streamVars == <<bus, cursor, batchStart, batch, calls, call, raised, i, store, attempts, snapshot>>

\* ------------------------------------------------------------------- logging

\* The root logger is never configured: it emits WARNING and above only.
Emitted == {"WARNING", "ERROR"}

Emit(l, level, msg) ==
  IF level \in Emitted THEN Append(l, [level |-> level, msg |-> msg]) ELSE l

\* ------------------------------------------------------------ initial states

InitPipeline ==
  /\ pc = "spark"
  /\ spark_conn = "unset" /\ spark_df = "unset" /\ session = "unset"
  /\ ddl = {}
  /\ log = <<>>
  /\ exc = "none"
  /\ bus \in [1..MaxMsgs -> Payloads]
  /\ cursor = 0 /\ batchStart = 0
  /\ batch = <<>>
  /\ calls = 0
  /\ call = "idle"
  /\ raised = "none"
  /\ i = 1
  /\ store = {}
  /\ attempts = <<>>
  /\ snapshot = {}

\* insert_data(session, df_batch, batch_id) called with a connected session.
InitDirect ==
  /\ pc = "direct"
  /\ spark_conn = "unset" /\ spark_df = "unset" /\ session = "ok"
  /\ ddl = {"keyspace", "table"}
  /\ log = <<>>
  /\ exc = "none"
  /\ bus = <<>>
  /\ cursor = 0 /\ batchStart = 0
  /\ batch \in SeqsUpTo(DirectRows, MaxRows)
  /\ calls = 1
  /\ call = "running"
  /\ raised = "none"
  /\ i = 1
  /\ store \in InitialStores
  /\ attempts = <<>>
  /\ snapshot = store

Init == InitPipeline \/ InitDirect

\* --------------------------------------------------------------- __main__

\* create_spark_connection, and the test of its result in __main__.
CreateSparkConnection ==
  /\ pc = "spark"
  /\ \E ok \in BOOLEAN :
       IF ok
         THEN /\ spark_conn' = "ok"
              /\ log' = Emit(log, "INFO", "Spark connection created successfully!")
              /\ pc' = "kafka"
         ELSE /\ spark_conn' = "none"
              /\ log' = Emit(log, "ERROR", "Couldn't create the spark session")
              /\ pc' = "exit"
  /\ UNCHANGED <<spark_df, session, ddl, exc>>
  /\ UNCHANGED streamVars

\* connect_to_kafka: a failure of load() is logged and None returned.
ConnectToKafka ==
  /\ pc = "kafka"
  /\ \E ok \in BOOLEAN :
       IF ok
         THEN /\ spark_df' = "ok"
              /\ log' = Emit(log, "INFO", "kafka dataframe created successfully")
         ELSE /\ spark_df' = "none"
              /\ log' = Emit(log, "WARNING", "kafka dataframe could not be created")
  /\ pc' = "select"
  /\ UNCHANGED <<spark_conn, session, ddl, exc>>
  /\ UNCHANGED streamVars

\* A create_selection_df_from_kafka that tolerates None.
SelectExprNeverRaises(df) == FALSE

\* spark_df.selectExpr(...): None has no attribute selectExpr.
SelectExprRaises(df) == df = "none"

\* create_selection_df_from_kafka: spark_df.selectExpr on None is an
\* AttributeError nothing catches.
CreateSelectionDf ==
  /\ pc = "select"
  /\ IF SelectExprRaises(spark_df)
       THEN /\ exc' = "AttributeError"
            /\ pc' = "exit"
       ELSE /\ exc' = exc
            /\ pc' = "cassandra"
  /\ UNCHANGED <<spark_conn, spark_df, session, ddl, log>>
  /\ UNCHANGED streamVars

\* create_cassandra_connection, and the test of its result in __main__.
CreateCassandraConnection ==
  /\ pc = "cassandra"
  /\ \E ok \in BOOLEAN :
       IF ok
         THEN /\ session' = "ok"
              /\ log' = log
              /\ pc' = "keyspace"
         ELSE /\ session' = "none"
              /\ log' = Emit(Emit(log, "ERROR", "Could not create cassandra connection"),
                             "ERROR", "Cassandra session creation failed")
              /\ pc' = "exit"
  /\ UNCHANGED <<spark_conn, spark_df, ddl, exc>>
  /\ UNCHANGED streamVars

\* create_keyspace: session.execute may raise, and nothing catches it.
CreateKeyspace ==
  /\ pc = "keyspace"
  /\ \E ok \in BOOLEAN :
       IF ok
         THEN /\ ddl' = ddl \cup {"keyspace"}
              /\ exc' = exc
              /\ pc' = "table"
         ELSE /\ ddl' = ddl
              /\ exc' = "DriverException"
              /\ pc' = "exit"
  /\ UNCHANGED <<spark_conn, spark_df, session, log>>
  /\ UNCHANGED streamVars

\* create_table: session.execute may raise, and nothing catches it.
CreateTable ==
  /\ pc = "table"
  /\ \E ok \in BOOLEAN :
       IF ok
         THEN /\ ddl' = ddl \cup {"table"}
              /\ exc' = exc
              /\ pc' = "start"
         ELSE /\ ddl' = ddl
              /\ exc' = "DriverException"
              /\ pc' = "exit"
  /\ UNCHANGED <<spark_conn, spark_df, session, log>>
  /\ UNCHANGED streamVars

\* selection_df.writeStream.foreachBatch(...).start(), then awaitTermination.
StartQuery ==
  /\ pc = "start"
  /\ pc' = "await"
  /\ UNCHANGED <<log, exc>>
  /\ UNCHANGED setupVars
  /\ UNCHANGED streamVars

\* The three states of the driver, read off the position of __main__.
DriverState ==
  IF pc = "await" THEN "STREAMING"
  ELSE IF pc = "exit" THEN "TERMINATED"
  ELSE IF pc = "direct" THEN "NONE"
  ELSE "INITIALIZING"

\* ------------------------------------------------------------- insert_data

\* dict.get(k): None when the key is absent.
Get(kwargs, k) == IF k \in DOMAIN kwargs THEN kwargs[k] ELSE NULL

\* A presence test that lets the empty string through.
IdMissingUnlessEmpty(kwargs) == "id" \notin DOMAIN kwargs \/ Get(kwargs, "id") = NULL

\* if "id" not in kwargs or not kwargs.get("id")
IdMissing(kwargs) == "id" \notin DOMAIN kwargs \/ ~Truthy(Get(kwargs, "id"))

\* uuid.UUID(kwargs.get("id")) raises ValueError
IdInvalid(kwargs) == Uuid[Get(kwargs, "id")[1]] = <<>>

\* The parameter tuple of session.execute.
InsertValues(kwargs) ==
  <<Uuid[Get(kwargs, "id")[1]][1],
    Get(kwargs, "first_name"),
    Get(kwargs, "last_name"),
    Get(kwargs, "gender"),
    Get(kwargs, "address"),
    Get(kwargs, "postcode"),
    Get(kwargs, "email"),
    Get(kwargs, "username"),
    Get(kwargs, "dob"),
    Get(kwargs, "registered_date"),
    Get(kwargs, "phone"),
    Get(kwargs, "picture")>>

ColumnIndex(c) == CHOOSE k \in 1..Len(Columns) : Columns[k] = c

\* The row INSERT INTO created_users(<Columns>) VALUES (%s, ...) writes.
RowOf(values) == [c \in Fields |-> values[ColumnIndex(c)]]

\* A table without the primary key: every INSERT adds a row.
UpsertWithoutKey(s, row) == s \cup {row}

\* id is the PRIMARY KEY: an INSERT replaces the row of the same id.
Upsert(s, row) == {r \in s : r["id"] # row["id"]} \cup {row}

MissingIdError == "ID is missing from the provided data."

InvalidUuidError == "Invalid UUID format for id"

\* A loop that skips the row of a bad id instead of raising.
InsertRowSkippingBadIds ==
  /\ call = "running"
  /\ i <= Len(batch)
  /\ LET kwargs == batch[i]
         values == InsertValues(kwargs)
     IN
       IF IdMissing(kwargs) \/ IdInvalid(kwargs)
         THEN /\ i' = i + 1
              /\ UNCHANGED <<call, raised, store, attempts, log>>
       ELSE \E ok \in BOOLEAN :
              /\ attempts' = Append(attempts,
                   [call |-> calls, pos |-> i, off |-> batchStart + i,
                    values |-> values, ok |-> ok])
              /\ IF ok
                   THEN /\ store' = Upsert(store, RowOf(values))
                        /\ log' = Emit(log, "INFO", "Data inserted")
                   ELSE /\ store' = store
                        /\ log' = Emit(log, "ERROR", "could not insert data")
              /\ i' = i + 1
              /\ UNCHANGED <<call, raised>>
  /\ UNCHANGED <<pc, exc, bus, cursor, batchStart, batch, calls, snapshot>>
  /\ UNCHANGED setupVars

\* One pass of the for loop: the row at position i.
InsertRow ==
  /\ call = "running"
  /\ i <= Len(batch)
  /\ LET kwargs == batch[i]
         values == InsertValues(kwargs)
     IN
       IF IdMissing(kwargs)
         THEN /\ call' = "raised"
              /\ raised' = MissingIdError
              /\ UNCHANGED <<i, store, attempts, log>>
       ELSE IF IdInvalid(kwargs)
         THEN /\ call' = "raised"
              /\ raised' = InvalidUuidError
              /\ UNCHANGED <<i, store, attempts, log>>
       ELSE \E ok \in BOOLEAN :
              /\ attempts' = Append(attempts,
                   [call |-> calls, pos |-> i, off |-> batchStart + i,
                    values |-> values, ok |-> ok])
              /\ IF ok
                   THEN /\ store' = Upsert(store, RowOf(values))
                        /\ log' = Emit(log, "INFO", "Data inserted")
                   ELSE /\ store' = store
                        /\ log' = Emit(log, "ERROR", "could not insert data")
              /\ i' = i + 1
              /\ UNCHANGED <<call, raised>>
  /\ UNCHANGED <<pc, exc, bus, cursor, batchStart, batch, calls, snapshot>>
  /\ UNCHANGED setupVars

\* The for loop is exhausted: insert_data returns None.
InsertReturn ==
  /\ call = "running"
  /\ i > Len(batch)
  /\ call' = "returned"
  /\ UNCHANGED <<pc, log, exc, bus, cursor, batchStart, batch, calls, raised, i, store,
                 attempts, snapshot>>
  /\ UNCHANGED setupVars

\* A direct caller delivers the same batch to insert_data again.
Redeliver ==
  /\ pc = "direct"
  /\ call = "returned"
  /\ calls < MaxCalls
  /\ calls' = calls + 1
  /\ call' = "running"
  /\ i' = 1
  /\ snapshot' = store
  /\ UNCHANGED <<pc, log, exc, bus, cursor, batchStart, batch, raised, store, attempts>>
  /\ UNCHANGED setupVars

\* ------------------------------------------------------ the streaming query

\* A query that commits the offsets of a micro-batch when it reads it.
PullBatchCommitting ==
  /\ pc = "await"
  /\ call = "idle"
  /\ cursor < Len(bus)
  /\ \E n \in 1..(Len(bus) - cursor) :
       /\ batch' = ParseBatch(SubSeq(bus, cursor + 1, cursor + n))
       /\ cursor' = cursor + n
  /\ batchStart' = cursor
  /\ calls' = calls + 1
  /\ call' = "running"
  /\ i' = 1
  /\ UNCHANGED <<pc, log, exc, bus, raised, store, attempts, snapshot>>
  /\ UNCHANGED setupVars

\* The query reads the next micro-batch at the cursor and calls the
\* foreachBatch function on its rows.
PullBatch ==
  /\ pc = "await"
  /\ call = "idle"
  /\ cursor < Len(bus)
  /\ \E n \in 1..(Len(bus) - cursor) :
       batch' = ParseBatch(SubSeq(bus, cursor + 1, cursor + n))
  /\ batchStart' = cursor
  /\ calls' = calls + 1
  /\ call' = "running"
  /\ i' = 1
  /\ UNCHANGED <<pc, log, exc, bus, cursor, raised, store, attempts, snapshot>>
  /\ UNCHANGED setupVars

\* The foreachBatch function returned: the query commits the batch's offsets.
CommitBatch ==
  /\ pc = "await"
  /\ call = "returned"
  /\ cursor' = batchStart + Len(batch)
  /\ call' = "idle"
  /\ UNCHANGED <<pc, log, exc, bus, batchStart, batch, calls, raised, i, store, attempts,
                 snapshot>>
  /\ UNCHANGED setupVars

\* The foreachBatch function raised: the query stops without committing and
\* awaitTermination raises in __main__.
QueryFailed ==
  /\ pc = "await"
  /\ call = "raised"
  /\ exc' = "StreamingQueryException"
  /\ pc' = "exit"
  /\ UNCHANGED <<log>>
  /\ UNCHANGED setupVars
  /\ UNCHANGED streamVars

\* ------------------------------------------------------------ specification

Next ==
  \/ CreateSparkConnection
  \/ ConnectToKafka
  \/ CreateSelectionDf
  \/ CreateCassandraConnection
  \/ CreateKeyspace
  \/ CreateTable
  \/ StartQuery
  \/ PullBatch
  \/ InsertRow
  \/ InsertReturn
  \/ CommitBatch
  \/ QueryFailed
  \/ Redeliver

Spec == Init /\ [][Next]_vars

\* ------------------------------------------------- vocabulary of the claims

\* What the id of a record is: "absent", "null", "empty", "not_uuid" or "valid".
IdKind(r) ==
  IF "id" \notin DOMAIN r THEN "absent"
  ELSE IF r["id"] = NULL THEN "null"
  ELSE IF r["id"] = Some(<<>>) THEN "empty"
  ELSE IF Uuid[r["id"][1]] = <<>> THEN "not_uuid"
  ELSE "valid"

BadPositions(b) == {k \in 1..Len(b) : IdKind(b[k]) # "valid"}

\* Position of the first record of b with a bad id, Len(b) + 1 when it has none.
FirstBad(b) ==
  LET bad == BadPositions(b) IN
    IF bad = {} THEN Len(b) + 1
    ELSE CHOOSE k \in bad : \A j \in bad : k <= j

\* The writes attempted by the insert_data call that is running or ran last.
CurrentAttempts == LET OfCall(a) == a.call = calls IN SelectSeq(attempts, OfCall)

Positions(as) == [k \in 1..Len(as) |-> as[k].pos]

Upto(n) == [k \in 1..n |-> k]

AllOk(as) == \A k \in 1..Len(as) : as[k].ok

Ended == call \in {"returned", "raised"}

ErrorsLogged == Cardinality({k \in 1..Len(log) : log[k].msg = "could not insert data"})

\* A message the schema fully describes: a JSON object with all 12 fields.
WellFormed(msg) == msg.json /\ DOMAIN msg.obj = Fields

\* --------------------------------------------------------------------- C1

\* C1: for every record with a valid id whose write fails, the failure is
\* logged, insert_data does not raise, and a write is attempted for every
\* later record of the batch that has a valid id.
C1_WriteFailureIsolated ==
  Ended =>
    \A k \in 1..Len(CurrentAttempts) :
      ~CurrentAttempts[k].ok =>
        /\ ErrorsLogged >= 1
        /\ \A j \in (CurrentAttempts[k].pos + 1)..Len(batch) :
             IdKind(batch[j]) = "valid" =>
               \E m \in 1..Len(CurrentAttempts) : CurrentAttempts[m].pos = j

\* --------------------------------------------------------------------- C2

\* C2: once streaming has started no per-record failure leaves the per-batch
\* callback, and the process ends only on a setup failure (before any batch).
C2_PerRecordFailuresSuppressed ==
  /\ pc = "await" => call # "raised"
  /\ pc = "exit" => calls = 0

\* --------------------------------------------------------------------- C3

\* C3: every record with a valid id gets exactly one write, and each of the
\* 12 values of the write is the record's field of the column's name.
C3_WriteCarriesTheRecord ==
  /\ \A k, m \in 1..Len(CurrentAttempts) :
       CurrentAttempts[k].pos = CurrentAttempts[m].pos => k = m
  /\ \A k \in 1..Len(CurrentAttempts) :
       LET a == CurrentAttempts[k]
           r == batch[a.pos]
       IN /\ a.values[ColumnIndex("id")] = Uuid[r["id"][1]][1]
          /\ \A c \in Fields \ {"id"} :
               a.values[ColumnIndex(c)] = (IF c \in DOMAIN r THEN r[c] ELSE NULL)

\* --------------------------------------------------------------------- C6

\* C6: for a batch of 3 whose record 2 has id "" and whose records 1 and 3
\* have valid ids, with the store accepting every write: either 1 and 3 are
\* written and the failure of 2 is logged, or nothing is written and the
\* call raises.
C6_IsolatedOrAtomic ==
  ( /\ Ended
    /\ Len(batch) = 3
    /\ IdKind(batch[1]) = "valid" /\ IdKind(batch[2]) = "empty" /\ IdKind(batch[3]) = "valid"
    /\ AllOk(CurrentAttempts) )
  => \/ /\ Positions(CurrentAttempts) = <<1, 3>>
        /\ Len(log) >= 1
     \/ /\ CurrentAttempts = <<>>
        /\ call = "raised"

\* --------------------------------------------------------------------- C7

\* C7: a message that is malformed JSON or lacks a declared field puts no
\* record in the batch handed to insert_data, and the batch it is in is
\* processed without raising because of it.
C7_IllFormedMessagesDropped ==
  (pc \in {"await", "exit"} /\ calls > 0) =>
    /\ \A k \in 1..Len(batch) : WellFormed(bus[batchStart + k])
    /\ call = "raised" => WellFormed(bus[batchStart + i])

\* --------------------------------------------------------------------- C4

\* C4: the table holds at most one row per id, and delivering a batch whose
\* writes all succeed a second time leaves the table as the first delivery
\* left it.
C4_KeyedUpsertIdempotent ==
  /\ \A r1, r2 \in store : r1["id"] = r2["id"] => r1 = r2
  /\ (pc = "direct" /\ call = "returned" /\ calls >= 2 /\ AllOk(attempts))
       => store = snapshot

\* Two records of one UUID, written differently and with different fields,
\* delivered twice to a table that held another row of that UUID.
C4_Witness ==
  /\ pc = "direct" /\ call = "returned" /\ calls = 2 /\ AllOk(attempts)
  /\ Len(batch) = 2
  /\ batch[1] # batch[2]
  /\ IdKind(batch[1]) = "valid" /\ IdKind(batch[2]) = "valid"
  /\ Uuid[batch[1]["id"][1]] = Uuid[batch[2]["id"][1]]
  /\ store = {RowOf(InsertValues(batch[2])), StoredRow(IdB, "0")}

\* --------------------------------------------------------------------- C5

\* C5: no write is ever attempted for a record whose id is absent, null,
\* empty or not a UUID; the loop never passes such a record, it raises the
\* missing-id error for the first three kinds and the UUID-format error for
\* the last, with no session.execute for that record.
C5_BadIdNeverWritten ==
  /\ \A k \in 1..Len(CurrentAttempts) : IdKind(batch[CurrentAttempts[k].pos]) = "valid"
  /\ call \in {"running", "returned"} => \A j \in 1..(i - 1) : IdKind(batch[j]) = "valid"
  /\ call = "raised" =>
       /\ IdKind(batch[i]) # "valid"
       /\ IdKind(batch[i]) \in {"absent", "null", "empty"} => raised = MissingIdError
       /\ IdKind(batch[i]) = "not_uuid" => raised = InvalidUuidError
       /\ \A k \in 1..Len(CurrentAttempts) : CurrentAttempts[k].pos # i

\* A record without the key id, met after a record that was written.
C5_Witness ==
  /\ call = "raised"
  /\ i = 2
  /\ IdKind(batch[2]) = "absent"
  /\ raised = MissingIdError
  /\ Len(CurrentAttempts) = 1

\* --------------------------------------------------------------------- C8

SetupFailureLogged ==
  \E k \in 1..Len(log) :
    /\ log[k].level \in {"WARNING", "ERROR"}
    /\ log[k].msg \in {"kafka dataframe could not be created",
                       "Could not create cassandra connection",
                       "Cassandra session creation failed"}

\* C8: the query is started only with the Spark session, the Kafka dataframe
\* and the Cassandra session obtained and both DDL statements executed; once
\* the Kafka subscription or the Cassandra connection has failed, the script
\* has logged it, is at its end or takes its one remaining step to it, and
\* has pulled no batch and issued no write.
C8_StreamingOnlyAfterSetup ==
  /\ [](DriverState = "STREAMING" =>
          /\ spark_conn = "ok" /\ spark_df = "ok" /\ session = "ok"
          /\ ddl = {"keyspace", "table"})
  /\ []((pc # "direct" /\ (spark_df = "none" \/ session = "none")) =>
          /\ SetupFailureLogged
          /\ calls = 0 /\ attempts = <<>> /\ cursor = 0 /\ store = {}
          /\ DriverState = "TERMINATED" \/ (pc = "select" /\ ENABLED Next))
  /\ [][(pc = "select" /\ spark_df = "none") => pc' = "exit"]_vars

\* The Kafka subscription failed and the process ended.
C8_Witness ==
  /\ pc = "exit"
  /\ spark_df = "none"
  /\ exc = "AttributeError"
  /\ SetupFailureLogged

\* --------------------------------------------------------------------- C9

\* C9: the cursor stays at the start of a micro-batch while insert_data runs
\* on it, after it raised, and until its return is committed; no other batch
\* is pulled meanwhile; the step that follows a normal return moves the
\* cursor past the batch whatever its writes did; and no message is written
\* twice.
C9_CursorFollowsReturn ==
  /\ [](pc # "direct" =>
          /\ call \in {"running", "returned", "raised"} => cursor = batchStart
          /\ call = "idle" => cursor = batchStart + Len(batch)
          /\ \A k, m \in 1..Len(attempts) : attempts[k].off = attempts[m].off => k = m)
  /\ [][(pc = "await" /\ call = "running") =>
          (batch' = batch /\ batchStart' = batchStart /\ calls' = calls)]_vars
  /\ [][call = "raised" => (call' = "raised" /\ cursor' = cursor)]_vars
  /\ [][(pc = "await" /\ call = "returned" /\ call' # "returned") =>
          cursor' = batchStart + Len(batch)]_vars

\* A batch with a failed write has been advanced past.
C9_Witness ==
  /\ pc = "await"
  /\ call = "idle"
  /\ cursor = Len(batch)
  /\ Len(batch) = 2
  /\ ~attempts[1].ok /\ attempts[2].ok

\* -------------------------------------------------------------------- C10

\* C10: the writes of a call are those of positions 1, 2, ... in order, one
\* each, up to the row the loop is at; the call raises ValueError exactly at
\* the first record with a bad id and returns only when there is none.
C10_InOrderUntilFirstBadId ==
  /\ call # "idle" => Positions(CurrentAttempts) = Upto(i - 1)
  /\ call = "running" => i <= FirstBad(batch)
  /\ call = "raised" =>
       /\ i = FirstBad(batch)
       /\ i <= Len(batch)
       /\ raised \in {MissingIdError, InvalidUuidError}
  /\ call = "returned" =>
       /\ FirstBad(batch) = Len(batch) + 1
       /\ i = Len(batch) + 1
       /\ raised = "none"

\* The second of three records has a bad id: one write, then the raise.
C10_Witness ==
  /\ call = "raised"
  /\ Len(batch) = 3
  /\ FirstBad(batch) = 2
  /\ Positions(CurrentAttempts) = <<1>>

====
